---- MODULE Spec2Model ----
(***************************************************************************)
(* The ensemble training loop of ensenble_train.py: train(data_dir,        *)
(* model_dir, args).  Five model slots are trained in lockstep, one epoch  *)
(* at a time; every slot-epoch is a training pass, a validation pass, the  *)
(* checkpoint writes and an early-stop check.                              *)
(*                                                                         *)
(* Floating point metrics are represented by integers (a macro F1 of 0.3   *)
(* is 3 units); np.inf and nan are the two distinguished values Inf and    *)
(* NaN, compared the way IEEE comparison does.  A model's parameters are   *)
(* represented by the number of optimizer steps applied to them, so two    *)
(* snapshots are equal exactly when no update lies between them.           *)
(***************************************************************************)
EXTENDS Integers, Sequences, FiniteSets, TLC

\* ---------------------------------------------------------------- bounds
Epochs == 2          \* args.epochs of the runs explored
MaxF1 == 2           \* validation F1 values are 0..MaxF1
MaxAcc == 1          \* validation accuracies are 0..MaxAcc
MaxLoss == 1         \* finite validation losses are 0..MaxLoss
TrainBatches == 2    \* len(train_loaders[i]) is TrainBatches or TrainBatches + 1
LogInterval == 2     \* args.log_interval of the runs explored

\* ------------------------------------------------------ program constants
NumSlots == 5
GridN == 16
Inf == 99
NaN == -1
NoFile == -1
Bare == -1
NoDir == -2
Patience == 1

Slots == 0 .. (NumSlots - 1)
F1Vals == 0 .. MaxF1
AccVals == 0 .. MaxAcc
LossVals == (0 .. MaxLoss) \cup {NaN}
ValidBatchSizes == {8, 32}
ExistingRuns == {{}, {Bare}, {Bare, 2}}
Names == {"dataset", "augmentation", "model1", "model2", "model3", "model4",
          "model5", "criterion", "optimizer"}
TrainTags == {"Train/loss", "Train/accuracy"}
ValTags == {"Val/loss", "Val/accuracy", "Val/F1", "results"}
Tags == TrainTags \cup ValTags

VARIABLES
    pc,               \* position of train() in its body
    error,            \* "none", or the kind of exception that ended the run
    unresolvable,     \* the configured names that no module attribute answers to
    valid_batch_size, \* args.valid_batch_size
    epochs,           \* args.epochs
    varied,           \* the slots whose validation metrics change from epoch
                      \* to epoch; the others report the same metrics each time
    dirs,             \* run directories that exist: Bare is {name}, n is {name}{n}
    save_dir,         \* the run directory of this run
    logger_open,      \* the SummaryWriter exists
    config_json,      \* config.json has been written
    epoch, i, idx,    \* the three loop counters
    window,           \* batches summed in temp_loss_value / temp_matches
    params,           \* params[s]: optimizer steps applied to models[s]
    best_val_accs, best_val_losses, best_f1_scores,
    best_val_acc, best_val_loss, best_f1_score,
    val_acc, val_loss, f1,
    early_stop,       \* the result of the last early-stop check
    best_file, last_file,   \* the parameters held by model{s}_best/_last.pth
    best_writes,      \* how often model{s}_best.pth has been written
    logger,           \* logger[tag]: the steps of the scalars written to tag
    trace,            \* the calls train() has made, in order
    f1_hist,          \* f1_hist[s]: the validation F1 values of slot s, each
                      \* with the parameters it was measured on
    plateau           \* plateau[s]: consecutive validations of slot s whose
                      \* loss did not improve on the best seen before

cfgvars == <<unresolvable, valid_batch_size, epochs, varied>>
fsvars == <<dirs, save_dir, logger_open, config_json>>
loopvars == <<epoch, i, idx, window>>
bestvars == <<best_val_accs, best_val_losses, best_f1_scores>>
localbest == <<best_val_acc, best_val_loss, best_f1_score>>
metricvars == <<val_acc, val_loss, f1>>
filevars == <<best_file, last_file, best_writes>>
vars == <<pc, error, cfgvars, fsvars, loopvars, params, bestvars, localbest,
          metricvars, early_stop, filevars, logger, trace, f1_hist, plateau>>

\* ------------------------------------------------------- pure functions
SetMax(S) == CHOOSE x \in S : \A y \in S : y <= x

\* increment_path(path, exist_ok=False) over the directories that exist.
increment_path(existing) ==
    IF Bare \notin existing
    THEN Bare
    ELSE LET nums == existing \ {Bare}
         IN  IF nums # {} THEN SetMax(nums) + 1 ELSE 2

\* x < y on floats: false as soon as one side is nan.
FLt(x, y) == x # NaN /\ y # NaN /\ x < y

PyMinLast(a, b) == b

\* Python's max(a, b) and min(a, b): the first argument unless the second
\* compares strictly beyond it.
PyMax(a, b) == IF FLt(a, b) THEN b ELSE a
PyMin(a, b) == IF FLt(b, a) THEN b ELSE a

IsNewBestOrTie(score, best) == score >= best

IsNewBestStale(score, best) == score > 0

\* The test that gates the best checkpoint: f1 > best_f1_score.
IsNewBest(score, best) == score > best

\* len(train_loaders[s]): the slots' loaders differ in length.
LoaderLen(s) == TrainBatches + (s % 2)

\* The step of a training scalar.
TrainStep(e, s, k) == e * LoaderLen(s) + k

Ev(op, s, e, r) == [op |-> op, slot |-> s, epoch |-> e, stop |-> r]

StartupOrderDeferred ==
    <<"increment_path", "resolve_dataset", "resolve_augmentation",
      "resolve_models", "open_logger", "write_config", "resolve_criterion",
      "resolve_optimizer">>

\* The statements of train() before the epoch loop, in program order.
StartupOrder ==
    <<"increment_path", "resolve_dataset", "resolve_augmentation",
      "resolve_models", "resolve_criterion", "resolve_optimizer",
      "open_logger", "write_config">>

StepAfter(step) ==
    LET k == CHOOSE n \in 1 .. Len(StartupOrder) : StartupOrder[n] = step
    IN  IF k = Len(StartupOrder)
        THEN (IF epochs > 0 THEN "slot" ELSE "done")
        ELSE StartupOrder[k + 1]

\* The configured names a startup statement looks up.
Needs(step) ==
    CASE step = "resolve_dataset" -> {"dataset"}
      [] step = "resolve_augmentation" -> {"augmentation"}
      [] step = "resolve_models" -> {"model1", "model2", "model3", "model4", "model5"}
      [] step = "resolve_criterion" -> {"criterion"}
      [] step = "resolve_optimizer" -> {"optimizer"}
      [] OTHER -> {}

\* EarlyStopping: best loss seen and consecutive non-improving observations.
ESInit == [best |-> Inf, counter |-> 0]

ESCall(m, loss) ==
    LET improved == FLt(loss, m.best)
        c == IF improved THEN 0 ELSE m.counter + 1
    IN  [best |-> IF improved THEN loss ELSE m.best,
         counter |-> c,
         stop |-> c > Patience]

\* <<f1, val_acc, val_loss>> of a validation pass.  A slot that is not varied
\* yields Baseline every time; a varied slot yields any member of M.
Baseline == <<1, 1, 1>>

Metrics(s, M) == IF s \in varied THEN M ELSE {Baseline}

\* Either the F1 moves while accuracy and loss stay, or accuracy and loss
\* move while the F1 stays.
AxisMetrics == (F1Vals \X {1} \X {1}) \cup ({1} \X AccVals \X LossVals)

\* Only the loss moves.
LossMetrics == {1} \X {1} \X LossVals

\* ------------------------------------------------------------------ Init
InitRun(E) ==
    /\ pc = StartupOrder[1]
    /\ error = "none"
    /\ unresolvable \in SUBSET Names
    /\ valid_batch_size \in ValidBatchSizes
    /\ epochs = E
    /\ \E p \in Slots : varied = {p}
    /\ dirs \in ExistingRuns
    /\ save_dir = NoDir
    /\ logger_open = FALSE
    /\ config_json = FALSE
    /\ epoch = 0 /\ i = 0 /\ idx = 0 /\ window = 0
    /\ params = [s \in Slots |-> 0]
    /\ best_val_accs = [s \in Slots |-> 0]
    /\ best_val_losses = [s \in Slots |-> Inf]
    /\ best_f1_scores = [s \in Slots |-> 0]
    /\ best_val_acc = 0 /\ best_val_loss = Inf /\ best_f1_score = 0
    /\ val_acc = 0 /\ val_loss = 0 /\ f1 = 0
    /\ early_stop = FALSE
    /\ best_file = [s \in Slots |-> NoFile]
    /\ last_file = [s \in Slots |-> NoFile]
    /\ best_writes = [s \in Slots |-> 0]
    /\ logger = [t \in Tags |-> <<>>]
    /\ trace = <<>>
    /\ f1_hist = [s \in Slots |-> <<>>]
    /\ plateau = [s \in Slots |-> 0]

Init == InitRun(Epochs)

\* --------------------------------------------------------------- startup
\* save_dir = increment_path(os.path.join(model_dir, args.name))
IncrementPath ==
    /\ pc = "increment_path"
    /\ save_dir' = increment_path(dirs)
    /\ pc' = StepAfter(pc)
    /\ UNCHANGED <<error, cfgvars, dirs, logger_open, config_json, loopvars,
                   params, bestvars, localbest, metricvars, early_stop,
                   filevars, logger, trace, f1_hist, plateau>>

\* getattr(import_module(...), name) and create_criterion(name, ...): the
\* lookup of a name that does not resolve raises, and nothing catches it.
Resolve ==
    /\ Needs(pc) # {}
    /\ IF Needs(pc) \cap unresolvable # {}
       THEN pc' = "aborted" /\ error' = "config"
       ELSE pc' = StepAfter(pc) /\ error' = error
    /\ UNCHANGED <<cfgvars, fsvars, loopvars, params, bestvars, localbest,
                   metricvars, early_stop, filevars, logger, trace, f1_hist,
                   plateau>>

\* logger = SummaryWriter(log_dir=save_dir)
OpenLogger ==
    /\ pc = "open_logger"
    /\ dirs' = dirs \cup {save_dir}
    /\ logger_open' = TRUE
    /\ pc' = StepAfter(pc)
    /\ UNCHANGED <<error, cfgvars, save_dir, config_json, loopvars, params,
                   bestvars, localbest, metricvars, early_stop, filevars,
                   logger, trace, f1_hist, plateau>>

\* json.dump(vars(args), f) into save_dir/config.json
WriteConfig ==
    /\ pc = "write_config"
    /\ config_json' = TRUE
    /\ pc' = StepAfter(pc)
    /\ UNCHANGED <<error, cfgvars, dirs, save_dir, logger_open, loopvars,
                   params, bestvars, localbest, metricvars, early_stop,
                   filevars, logger, trace, f1_hist, plateau>>

\* ------------------------------------------------------------ slot-epoch
\* The head of the slot loop body: the slot's bests are read into the locals
\* and the training pass starts.
SlotBegin ==
    /\ pc = "slot"
    /\ best_val_acc' = best_val_accs[i]
    /\ best_val_loss' = best_val_losses[i]
    /\ best_f1_score' = best_f1_scores[i]
    /\ idx' = 0
    /\ window' = 0
    /\ trace' = Append(trace, Ev("train", i, epoch, FALSE))
    /\ pc' = "train_batch"
    /\ UNCHANGED <<error, cfgvars, fsvars, epoch, i, params, bestvars,
                   metricvars, early_stop, filevars, logger, f1_hist, plateau>>

\* One batch of the training pass: an optimizer step, and after every
\* log_interval-th batch the two training scalars and the window reset.
TrainBatch ==
    /\ pc = "train_batch"
    /\ idx < LoaderLen(i)
    /\ params' = [params EXCEPT ![i] = @ + 1]
    /\ LET flush == (idx + 1) % LogInterval = 0
       IN  /\ logger' = IF flush
                        THEN [t \in Tags |->
                                IF t \in TrainTags
                                THEN Append(logger[t], TrainStep(epoch, i, idx))
                                ELSE logger[t]]
                        ELSE logger
           /\ window' = IF flush THEN 0 ELSE window + 1
    /\ idx' = idx + 1
    /\ pc' = IF idx + 1 = LoaderLen(i) THEN "validate" ELSE "train_batch"
    /\ UNCHANGED <<error, cfgvars, fsvars, epoch, i, bestvars, localbest,
                   metricvars, early_stop, filevars, trace, f1_hist, plateau>>

\* The validation pass.  grid_image(..., n=16) asserts n <= batch_size on the
\* first batch; the AssertionError is not caught.  Otherwise the pass yields
\* the three metrics, which the model and data decide.
Validate(M) ==
    /\ pc = "validate"
    /\ trace' = Append(trace, Ev("validate", i, epoch, FALSE))
    /\ IF GridN > valid_batch_size
       THEN /\ pc' = "aborted"
            /\ error' = "visualization"
            /\ UNCHANGED <<metricvars, f1_hist>>
       ELSE /\ \E m \in Metrics(i, M) :
                 /\ f1' = m[1] /\ val_acc' = m[2] /\ val_loss' = m[3]
                 /\ f1_hist' = [f1_hist EXCEPT ![i] =
                                  Append(@, [f1 |-> m[1], params |-> params[i]])]
            /\ pc' = "checkpoint"
            /\ error' = error
    /\ UNCHANGED <<cfgvars, fsvars, loopvars, params, bestvars, localbest,
                   early_stop, filevars, logger, plateau>>

\* The best-state update, the two torch.save calls and the validation scalars.
Checkpoint ==
    /\ pc = "checkpoint"
    /\ best_val_acc' = PyMax(best_val_acc, val_acc)
    /\ best_val_loss' = PyMin(best_val_loss, val_loss)
    /\ best_val_accs' = [best_val_accs EXCEPT ![i] = PyMax(best_val_acc, val_acc)]
    /\ best_val_losses' = [best_val_losses EXCEPT ![i] = PyMin(best_val_loss, val_loss)]
    /\ plateau' = [plateau EXCEPT ![i] =
                     IF FLt(val_loss, best_val_loss) THEN 0 ELSE @ + 1]
    /\ IF IsNewBest(f1, best_f1_score)
       THEN /\ best_file' = [best_file EXCEPT ![i] = params[i]]
            /\ best_writes' = [best_writes EXCEPT ![i] = @ + 1]
            /\ best_f1_scores' = [best_f1_scores EXCEPT ![i] = f1]
            /\ best_f1_score' = f1
       ELSE UNCHANGED <<best_file, best_writes, best_f1_scores, best_f1_score>>
    /\ last_file' = [last_file EXCEPT ![i] = params[i]]
    /\ trace' = Append(trace, Ev("save_last", i, epoch, FALSE))
    /\ logger' = [t \in Tags |->
                    IF t \in ValTags THEN Append(logger[t], epoch) ELSE logger[t]]
    /\ pc' = "early_stop"
    /\ UNCHANGED <<error, cfgvars, fsvars, loopvars, params, metricvars,
                   early_stop, f1_hist>>

\* early_stop = EarlyStopping()(val_loss, models[i]); if early_stop: break.
\* The break leaves the slot loop, so the next slot-epoch is slot 0 of the
\* next epoch; otherwise the slot loop goes on.
EarlyStopCheck(r) ==
    /\ pc = "early_stop"
    /\ early_stop' = r
    /\ trace' = Append(trace, Ev("early_stop", i, epoch, r))
    /\ LET last == r \/ i = NumSlots - 1
           e == IF last THEN epoch + 1 ELSE epoch
       IN  /\ epoch' = e
           /\ i' = IF last THEN 0 ELSE i + 1
           /\ pc' = IF e >= epochs THEN "done" ELSE "slot"
    /\ UNCHANGED <<error, cfgvars, fsvars, idx, window, params, bestvars,
                   localbest, metricvars, filevars, logger, f1_hist, plateau>>

\* The result of the check as an input of the loop.
EarlyStopExternal == \E r \in BOOLEAN : EarlyStopCheck(r)

\* The result of the check as a new EarlyStopping() computes it.
EarlyStopFresh == EarlyStopCheck(ESCall(ESInit, val_loss).stop)

Startup == IncrementPath \/ Resolve \/ OpenLogger \/ WriteConfig

Next ==
    \/ Startup
    \/ SlotBegin
    \/ TrainBatch
    \/ Validate(AxisMetrics)
    \/ Checkpoint
    \/ EarlyStopExternal

Spec == Init /\ [][Next]_vars

\* The loop with the early-stop check computed by a new EarlyStopping() per
\* call, over enough epochs for a loss to stay unimproved beyond the patience.
InitMonitor == InitRun(Patience + 2)

NextMonitor ==
    \/ Startup
    \/ SlotBegin
    \/ TrainBatch
    \/ Validate(LossMetrics)
    \/ Checkpoint
    \/ EarlyStopFresh

SpecMonitor == InitMonitor /\ [][NextMonitor]_vars

\* ------------------------------------------------------------ properties
Last(seq) == seq[Len(seq)]

\* How many calls of kind op slot s has received in epoch e.
Count(op, s, e) ==
    Cardinality({k \in DOMAIN trace :
                   trace[k].op = op /\ trace[k].slot = s /\ trace[k].epoch = e})

\* The early-stop checks that returned stop.
StopEvents == {k \in DOMAIN trace : trace[k].op = "early_stop" /\ trace[k].stop}

StoppedSlots == {trace[k].slot : k \in StopEvents}

\* The largest F1 among the given observations, 0 if there is none.
MaxF1Of(h, n) == SetMax({0} \cup {h[k].f1 : k \in 1 .. n})

\* The best F1 of slot s before its latest validation.
PriorBest(s) == MaxF1Of(f1_hist[s], Len(f1_hist[s]) - 1)

AtBoundary == pc \in {"slot", "done"}

\* C1: if exactly one early-stop check has returned stop, for slot k in epoch
\* e, then slot k receives no train or validate call after it, and in a run
\* that has ended every other slot has received exactly one train call and
\* one validate call in every epoch 0..epochs-1.
EarlyStopIsolation ==
    \A k \in StopEvents :
        StopEvents = {k} =>
            /\ \A q \in DOMAIN trace :
                   (q > k /\ trace[q].slot = trace[k].slot)
                       => trace[q].op \notin {"train", "validate"}
            /\ pc = "done" =>
                   \A s \in Slots \ {trace[k].slot} : \A e \in 0 .. (epochs - 1) :
                       Count("train", s, e) = 1 /\ Count("validate", s, e) = 1

\* C2: model{s}_best.pth is written in a step exactly when the step is the
\* checkpoint step of slot s and the F1 just measured is strictly greater than
\* the largest F1 slot s had measured before (0 if none); the write stores the
\* slot's current parameters.
CheckpointGating ==
    [][\A s \in Slots :
          /\ (best_writes'[s] # best_writes[s] \/ best_file'[s] # best_file[s])
                 <=> (pc = "checkpoint" /\ s = i /\ f1 > PriorBest(s))
          /\ best_writes'[s] # best_writes[s]
                 => (best_writes'[s] = best_writes[s] + 1 /\ best_file'[s] = params[s])
      ]_vars

\* C2 witness: a tie has just been checkpointed: the F1 equals the slot's best,
\* which an earlier epoch set, and the best file still holds that epoch's
\* parameters.
TieNotOverwritten ==
    /\ pc = "early_stop"
    /\ i \in varied
    /\ Len(f1_hist[i]) = 2
    /\ f1 = 2 /\ f1_hist[i][1].f1 = 2
    /\ best_writes[i] = 1
    /\ best_file[i] = f1_hist[i][1].params
    /\ last_file[i] = f1_hist[i][2].params

\* C3: in a run that has ended, every slot that no early-stop check of its own
\* has stopped has had model{s}_last.pth written exactly once in every epoch
\* 0..epochs-1.
LastWrittenEveryEpoch ==
    pc = "done" =>
        \A s \in Slots \ StoppedSlots : \A e \in 0 .. (epochs - 1) :
            Count("save_last", s, e) = 1

\* C4: the best accuracy and best F1 of a slot never decrease, its best loss
\* never increases, none of them is ever nan, and until the slot has been
\* validated they are 0, +infinity and 0.
MetricMonotonic ==
    [][\A s \in Slots :
          /\ best_val_accs'[s] >= best_val_accs[s]
          /\ best_f1_scores'[s] >= best_f1_scores[s]
          /\ best_val_losses'[s] <= best_val_losses[s]
          /\ best_val_losses'[s] # NaN
          /\ f1_hist[s] = <<>> =>
                 /\ best_val_accs[s] = 0
                 /\ best_val_losses[s] = Inf
                 /\ best_f1_scores[s] = 0
      ]_vars

\* C4 witness: a validation has just reported a loss above and an accuracy
\* below the slot's bests, and the bests have stayed.
WorseEpochKept ==
    /\ pc = "early_stop"
    /\ i \in varied
    /\ val_loss # NaN
    /\ val_loss > best_val_losses[i]
    /\ val_acc < best_val_accs[i]

\* C5: the calls come in groups train, validate, save, early-stop check of one
\* slot and epoch; within an epoch the slots follow each other in the order
\* 0, 1, 2, 3, 4; and the epoch counter is past e only when all five slots
\* have had their early-stop check of epoch e.
OrchestrationOrder ==
    /\ \A k \in DOMAIN trace :
           /\ trace[k].op = <<"train", "validate", "save_last", "early_stop">>[((k - 1) % 4) + 1]
           /\ k % 4 # 1 => (trace[k].slot = trace[k - 1].slot /\ trace[k].epoch = trace[k - 1].epoch)
           /\ k = 1 => (trace[k].slot = 0 /\ trace[k].epoch = 0)
           /\ (k % 4 = 1 /\ k > 1) =>
                  \/ trace[k].epoch = trace[k - 1].epoch /\ trace[k].slot = trace[k - 1].slot + 1
                  \/ trace[k].epoch = trace[k - 1].epoch + 1 /\ trace[k].slot = 0
    /\ \A e \in 0 .. (epoch - 1) : \A s \in Slots : Count("early_stop", s, e) = 1

\* C6: whenever the validation loss of a slot has failed to improve for more
\* than Patience consecutive epochs, the early-stop check made after that
\* validation returns stop.
PatienceStops ==
    (AtBoundary /\ trace # <<>> /\ plateau[Last(trace).slot] > Patience)
        => early_stop

\* C7: when the visualization of the first validation batch fails, the
\* validation pass still ends with its metrics and the run goes on to the
\* best-state update and the checkpoint writes.
VisualizationNonFatal ==
    GridN > valid_batch_size =>
        /\ error # "visualization"
        /\ (trace # <<>> /\ Last(trace).op = "validate") => pc = "checkpoint"

\* C8: a run with a name that does not resolve never enters the epoch loop and
\* never has a run directory, a logging sink, a config.json, a checkpoint file
\* or a train or validate call; it ends aborted.
NoPartialRun ==
    unresolvable # {} =>
        /\ pc \in {StartupOrder[k] : k \in DOMAIN StartupOrder} \cup {"aborted"}
        /\ pc = "aborted" => error = "config"
        /\ save_dir = NoDir \/ save_dir \notin dirs
        /\ ~logger_open
        /\ ~config_json
        /\ \A s \in Slots : best_file[s] = NoFile /\ last_file[s] = NoFile
        /\ trace = <<>>

\* C8 witness: the run has aborted on the optimizer name, the last one looked
\* up, next to two earlier run directories.
AbortedOnOptimizer ==
    /\ pc = "aborted"
    /\ error = "config"
    /\ unresolvable = {"optimizer"}
    /\ dirs = {Bare, 2}
    /\ save_dir = 3

\* C9: the steps of the scalars written to "Train/loss", and to
\* "Train/accuracy", are strictly increasing over the run; the window holds
\* the batches since the last write, which comes after every LogInterval-th
\* batch.
TrainStepsIncrease ==
    /\ \A t \in TrainTags : \A k \in 1 .. (Len(logger[t]) - 1) :
           logger[t][k] < logger[t][k + 1]
    /\ pc = "train_batch" => window = idx % LogInterval

\* What the best state and the files of slot s are, given what the slot has
\* measured: the best F1 is the largest F1 measured (0 if none); the best file
\* exists exactly when that is above 0, holds the parameters measured in the
\* first epoch that reached it and has been written once per strict
\* improvement; the last file holds the parameters of the slot's latest epoch,
\* which are those its validation measured and the slot's current ones.
BestStateOf(s) ==
    LET h == f1_hist[s]
        m == MaxF1Of(h, Len(h))
        first == CHOOSE k \in 1 .. Len(h) :
                     h[k].f1 = m /\ \A j \in 1 .. (k - 1) : h[j].f1 < m
    IN  /\ best_f1_scores[s] = m
        /\ best_file[s] # NoFile <=> m > 0
        /\ m > 0 => best_file[s] = h[first].params
        /\ best_writes[s] =
               Cardinality({k \in 1 .. Len(h) : h[k].f1 > MaxF1Of(h, k - 1)})
        /\ last_file[s] = IF h = <<>> THEN NoFile ELSE Last(h).params
        /\ h # <<>> => Last(h).params = params[s]
        /\ Len(h) = Cardinality({k \in DOMAIN trace :
                        trace[k].op = "validate" /\ trace[k].slot = s})

BestStateAtBoundary == AtBoundary => \A s \in Slots : BestStateOf(s)

\* C10: between slot-epochs every slot's best state and files are as
\* BestStateOf says, and no step changes a file or a best-state entry of a
\* slot other than the one being processed.
BestStateInvariant ==
    [][/\ BestStateAtBoundary
       /\ BestStateAtBoundary'
       /\ \A s \in Slots \ {i} :
              /\ best_file'[s] = best_file[s]
              /\ last_file'[s] = last_file[s]
              /\ best_writes'[s] = best_writes[s]
              /\ best_f1_scores'[s] = best_f1_scores[s]
              /\ best_val_accs'[s] = best_val_accs[s]
              /\ best_val_losses'[s] = best_val_losses[s]
      ]_vars

\* C10 witness: a run has ended in which the varied slot first measured 1, then
\* 2, so its best file was written twice and holds the second epoch's
\* parameters, while a slot after it missed the second epoch and its last file
\* holds the first epoch's.
BestOverwrittenAndSlotSkipped ==
    /\ pc = "done"
    /\ \E s \in varied :
           /\ Len(f1_hist[s]) = 2
           /\ f1_hist[s][1].f1 = 1 /\ f1_hist[s][2].f1 = 2
           /\ best_writes[s] = 2
           /\ s < NumSlots - 1
           /\ Len(f1_hist[NumSlots - 1]) = 1
           /\ last_file[NumSlots - 1] = f1_hist[NumSlots - 1][1].params

====
